---- MODULE Spec2Model ----
(***************************************************************************)
(* The SQL agent workflow of QGenie_ai: the LangGraph pipeline built by    *)
(* SqlAgentGraph (graph.py) from the stages of SqlAgentNodes (nodes.py)    *)
(* and the routing functions of SqlAgentEdges (edges.py), driven by        *)
(* ChatbotService.handle_request, with DatabaseService as the data port.   *)
(*                                                                         *)
(* Texts are sequences of atoms.  Query texts, labels and display names    *)
(* are sequences of one-character strings; longer literals of the code     *)
(* are kept as one atom each, except that the two characters of the        *)
(* failure marker are always separate atoms, so that the substring test    *)
(* of the routing layer is computed and not assumed.                       *)
(***************************************************************************)
EXTENDS Integers, Sequences, FiniteSets, TLC

MAX_ERROR_COUNT == 3

\* Cap of the history counters (they saturate; the run itself is not cut).
CallCap == 4

\* Python's None, and a key that is absent from the state dict.
None == <<"<None>">>

----------------------------------------------------------------------------
(* Text helpers: the Python string operations the stages use.              *)

UpperChars ==
    <<"A","B","C","D","E","F","G","H","I","J","K","L","M",
      "N","O","P","Q","R","S","T","U","V","W","X","Y","Z">>

LowerChars ==
    <<"a","b","c","d","e","f","g","h","i","j","k","l","m",
      "n","o","p","q","r","s","t","u","v","w","x","y","z">>

LowerChar(c) ==
    IF \E i \in DOMAIN UpperChars : UpperChars[i] = c
    THEN LowerChars[CHOOSE i \in DOMAIN UpperChars : UpperChars[i] = c]
    ELSE c

\* str.lower()
Lower(s) == [i \in 1..Len(s) |-> LowerChar(s[i])]

Whitespace == {" ", "\t", "\n"}

RECURSIVE SplitFrom(_, _, _, _)
SplitFrom(s, i, cur, acc) ==
    IF i > Len(s)
    THEN IF cur = <<>> THEN acc ELSE Append(acc, cur)
    ELSE IF s[i] \in Whitespace
         THEN SplitFrom(s, i + 1, <<>>, IF cur = <<>> THEN acc ELSE Append(acc, cur))
         ELSE SplitFrom(s, i + 1, Append(cur, s[i]), acc)

\* str.split() without arguments: the maximal runs of non-whitespace.
Split(s) == SplitFrom(s, 1, <<>>, <<>>)

RECURSIVE StripLeft(_)
StripLeft(s) ==
    IF s # <<>> /\ Head(s) \in Whitespace THEN StripLeft(Tail(s)) ELSE s

RECURSIVE StripRight(_)
StripRight(s) ==
    IF s # <<>> /\ s[Len(s)] \in Whitespace
    THEN StripRight(SubSeq(s, 1, Len(s) - 1))
    ELSE s

\* str.strip()
Strip(s) == StripRight(StripLeft(s))

\* Python's  sub in text
IsSubstring(sub, text) ==
    \E i \in 0..(Len(text) - Len(sub)) :
        \A j \in 1..Len(sub) : text[i + j] = sub[j]

RECURSIVE Join(_, _)
\* sep.join(parts)
Join(parts, sep) ==
    IF parts = <<>> THEN <<>>
    ELSE IF Len(parts) = 1 THEN parts[1]
    ELSE parts[1] \o sep \o Join(Tail(parts), sep)

\* The failure marker the routing layer and the feedback builder look for:
\* the two Hangul characters o and ryu of the word for "error", written here
\* in ASCII, one atom per character.
ErrorMarker == <<"[o]", "[ryu]">>

\* Truthiness of an Optional[str]
Truthy(t) == t # None /\ t # <<>>

\* A key the dict does not hold, where a stage or an edge reads it with
\* state.get: the value of the key, or the default when it is absent.
Absent == <<"<absent>">>

Get(v, default) == IF v = Absent THEN default ELSE v

----------------------------------------------------------------------------
(* Inputs: what the two ports may answer.                                  *)

\* Query texts the language port returns to sql_generator_node.
QuerySamples ==
    { <<"S","E","L","E","C","T"," ","1">>,
      <<"D","R","O","P"," ","t">>,
      <<"d","r","o","p",";">>,
      <<"a","\t","D","e","l","e","t","e","\n","b">>,
      <<"u","p","d","a","t","e"," "," ","i","n","s","e","r","t">>,
      <<"d","r","o","p","x">> }

\* Exception texts (str(e)) of a failed port call.
ExceptionTexts ==
    { <<"ReadTimeout">>, <<"connection ", "[o]", "[ryu]">> }

\* Labels the language port returns to intent_classifier_node.
IntentLabels ==
    { <<"S","Q","L">>, <<" ","S","Q","L","\n">>, <<"s","q","l">>,
      <<"O","T","H","E","R">> }

\* Contents of the message the language port returns to the synthesizer.
SynthesizedTexts == { <<>>, <<"answer">> }

NoData == [kind |-> "bool", columns |-> <<>>, rows |-> <<>>, text |-> <<>>]

\* What APIClient.execute_query gives DatabaseService.execute_query:
\* a QueryExecutionResponse, or an exception (timeout, connect error,
\* HTTP status error).
ApiOutcomes ==
    { [kind |-> "response", code |-> "2400", message |-> <<"OK">>,
       data |-> [kind |-> "table", columns |-> << <<"name">> >>,
                 rows |-> << << <<"kim">> >>, << None >> >>, text |-> <<>>],
       e |-> <<>>],
      [kind |-> "response", code |-> "2400", message |-> <<"OK">>,
       data |-> [kind |-> "table", columns |-> << <<"memo">> >>,
                 rows |-> << << <<"payment ", "[o]", "[ryu]">> >> >>, text |-> <<>>],
       e |-> <<>>],
      [kind |-> "response", code |-> "2400", message |-> <<"OK">>,
       data |-> NoData, e |-> <<>>],
      [kind |-> "response", code |-> "4000", message |-> <<"syntax error">>,
       data |-> NoData, e |-> <<>>],
      [kind |-> "response", code |-> "4000", message |-> <<"failed">>,
       data |-> [kind |-> "str", columns |-> <<>>, rows |-> <<>>,
                 text |-> <<"syntax ", "[o]", "[ryu]">>],
       e |-> <<>>] }
    \cup { [kind |-> "exception", code |-> "", message |-> <<>>,
            data |-> NoData, e |-> x] : x \in ExceptionTexts }

\* The backend ran the query: a response with the success code.
ApiOk(o) == o.kind = "response" /\ o.code = "2400"

\* A data port that reports a failed call by raising, which is the failure
\* the except branch of sql_executor_node handles.
RaisingPortOutcomes ==
    { [kind |-> "return", text |-> <<"3 rows">>],
      [kind |-> "return", text |-> <<"memo: payment ", "[o]", "[ryu]">>] }
    \cup { [kind |-> "raise", text |-> x] : x \in ExceptionTexts }

DataPorts == {"DatabaseService", "RaisingPort"}

\* Outcomes of get_databases_with_annotations: lists of entries with the
\* display name, the profile id and whether annotations exist for it.
ProfileLists ==
    { <<>>,
      << [display_name |-> <<"s","a","l","e","s">>, id |-> "p1", annotated |-> TRUE],
         [display_name |-> <<"h","r">>, id |-> "p2", annotated |-> FALSE] >>,
      << [display_name |-> <<"h","r","_","d","b">>, id |-> "p3", annotated |-> FALSE] >>,
      << [display_name |-> <<"h","r","_","d","b">>, id |-> "p4", annotated |-> TRUE],
         [display_name |-> <<"h","r">>, id |-> "p5", annotated |-> FALSE] >> }

\* Answers of the language port to the source-selection prompt.
DbAnswers ==
    { <<"h","r">>, <<" ","s","a","l","e","s","\n">>, <<"c","r","m">>,
      <<"h","r","2">> }

----------------------------------------------------------------------------
(* The pipeline state and the pure parts of the stages.                    *)

Stages ==
    {"intent_classifier", "db_classifier", "unsupported_question",
     "sql_generator", "sql_validator", "sql_executor", "response_synthesizer"}

\* initial_state of handle_request; the keys it does not set are absent.
InitialState ==
    [intent |-> None, selected_db |-> None, selected_db_profile |-> "",
     db_schema |-> None, sql_query |-> None,
     validation_error |-> None, validation_error_count |-> 0,
     execution_result |-> None, execution_error_count |-> 0,
     final_response |-> None]

SQL == <<"S","Q","L">>

\* Routing that sends every intent to the source selector.
route_after_intent_classification_AlwaysSql(s) == "db_classifier"

route_after_intent_classification(s) ==
    IF s.intent = SQL THEN "db_classifier" ELSE "unsupported_question"

\* should_execute_sql with the test of validation_error before the ceiling.
should_execute_sql_ErrorFirst(s) ==
    IF Truthy(Get(s.validation_error, None)) THEN "regenerate"
    ELSE IF s.validation_error_count >= MAX_ERROR_COUNT THEN "synthesize_failure"
    ELSE "execute"

\* should_execute_sql without the test of validation_error.
should_execute_sql_IgnoringError(s) ==
    IF s.validation_error_count >= MAX_ERROR_COUNT THEN "synthesize_failure"
    ELSE "execute"

should_execute_sql(s) ==
    IF s.validation_error_count >= MAX_ERROR_COUNT THEN "synthesize_failure"
    ELSE IF Truthy(Get(s.validation_error, None)) THEN "regenerate"
    ELSE "execute"

\* should_retry_or_respond without the ceiling test.
should_retry_or_respond_NoCeiling(s) ==
    LET execution_result == Get(s.execution_result, <<>>)
    IN  IF execution_result = None THEN "TypeError"
        ELSE IF IsSubstring(ErrorMarker, execution_result) THEN "regenerate"
        ELSE "synthesize_success"

\* The label should_retry_or_respond returns, or "TypeError" when it
\* raises: the in test of line 46 has None on its right when the key
\* execution_result holds None (the default "" is for an absent key only).
should_retry_or_respond(s) ==
    LET execution_result == Get(s.execution_result, <<>>)
    IN  IF s.execution_error_count >= MAX_ERROR_COUNT THEN "synthesize_failure"
        ELSE IF execution_result = None THEN "TypeError"
        ELSE IF IsSubstring(ErrorMarker, execution_result) THEN "regenerate"
        ELSE "synthesize_success"

\* The routing tables of _add_edges.
ValidatorTarget(label) ==
    CASE label = "regenerate" -> "sql_generator"
      [] label = "execute" -> "sql_executor"
      [] label = "synthesize_failure" -> "response_synthesizer"

\* The executor's routing table with the retry going back to the selector.
ExecutorTarget_RetryFromSelector(label) ==
    CASE label = "regenerate" -> "db_classifier"
      [] label = "synthesize_success" -> "response_synthesizer"
      [] label = "synthesize_failure" -> "response_synthesizer"

ExecutorTarget(label) ==
    CASE label = "regenerate" -> "sql_generator"
      [] label = "synthesize_success" -> "response_synthesizer"
      [] label = "synthesize_failure" -> "response_synthesizer"

dangerous_keywords ==
    << <<"d","r","o","p">>, <<"d","e","l","e","t","e">>,
       <<"u","p","d","a","t","e">>, <<"i","n","s","e","r","t">>,
       <<"t","r","u","n","c","a","t","e">>, <<"a","l","t","e","r">>,
       <<"c","r","e","a","t","e">>, <<"g","r","a","n","t">>,
       <<"r","e","v","o","k","e">> >>

\* found_keywords without lower().
found_keywords_CaseSensitive(sql_query) ==
    LET query_words == Split(sql_query)
    IN  SelectSeq(dangerous_keywords,
                  LAMBDA k : \E i \in DOMAIN query_words : query_words[i] = k)

\* found_keywords of sql_validator_node
found_keywords(sql_query) ==
    LET query_words == Split(Lower(sql_query))
    IN  SelectSeq(dangerous_keywords,
                  LAMBDA k : \E i \in DOMAIN query_words : query_words[i] = k)

Quoted(k) == <<"'">> \o k \o <<"'">>

\* error_msg naming the first keyword found only.
ValidationMessage_FirstOnly(found) ==
    <<"dangerous keyword ">> \o Quoted(found[1]) \o <<" is included.">>

\* error_msg of sql_validator_node: the keywords, quoted, between two
\* fixed Korean phrases.
ValidationMessage(found) ==
    <<"dangerous keyword ">>
    \o Join([i \in 1..Len(found) |-> Quoted(found[i])], <<",", " ">>)
    \o <<" is included.">>

MaxRetryMessage ==
    <<"SQL validation failed ", ToString(MAX_ERROR_COUNT), " times",
      " (max retries ", ToString(MAX_ERROR_COUNT), " exceeded)">>

\* sql_validator_node resetting both counters when the query passes.
sql_validator_node_ResetsBoth(s) ==
    LET found == found_keywords(s.sql_query)
        current_retry_count == s.validation_error_count
    IN  IF found # <<>>
        THEN LET t == [s EXCEPT !.validation_error = ValidationMessage(found),
                                !.validation_error_count = current_retry_count + 1]
             IN  [state |-> t,
                  raised |-> t.validation_error_count >= MAX_ERROR_COUNT,
                  e |-> MaxRetryMessage]
        ELSE [state |-> [s EXCEPT !.validation_error = None,
                                  !.validation_error_count = 0,
                                  !.execution_error_count = 0],
              raised |-> FALSE, e |-> <<>>]

\* The body of sql_validator_node: the state it leaves and the exception
\* it raises, if any.
sql_validator_node(s) ==
    LET found == found_keywords(s.sql_query)
        current_retry_count == s.validation_error_count
    IN  IF found # <<>>
        THEN LET t == [s EXCEPT !.validation_error = ValidationMessage(found),
                                !.validation_error_count = current_retry_count + 1]
             IN  [state |-> t,
                  raised |-> t.validation_error_count >= MAX_ERROR_COUNT,
                  e |-> MaxRetryMessage]
        ELSE [state |-> [s EXCEPT !.validation_error = None,
                                  !.validation_error_count = 0],
              raised |-> FALSE, e |-> <<>>]

\* The error_feedback of sql_generator_node: which block it is and the
\* texts it embeds.
NoFeedback == [kind |-> "", reason |-> <<>>, failed_sql |-> <<>>, error |-> <<>>]

_build_error_feedback(s) ==
    IF Truthy(s.validation_error) /\ s.validation_error_count > 0
    THEN [NoFeedback EXCEPT !.kind = "validation", !.reason = s.validation_error]
    ELSE IF /\ Truthy(s.execution_result)
            /\ IsSubstring(ErrorMarker, s.execution_result)
            /\ s.execution_error_count > 0
         THEN [NoFeedback EXCEPT !.kind = "execution",
                                 !.failed_sql = s.sql_query,
                                 !.error = s.execution_result]
         ELSE NoFeedback

\* The success branch leaving validation_error as it was.
GeneratorSuccess_KeepsError(s, query) ==
    [s EXCEPT !.sql_query = query, !.execution_result = None]

\* The success branch of sql_generator_node.
GeneratorSuccess(s, query) ==
    [s EXCEPT !.sql_query = query, !.validation_error = None,
              !.execution_result = None]

\* sql_generator_node returning the state it got when the language port
\* or the parser fails.
sql_generator_node_SwallowsFailure(s, ok, v) ==
    IF ok
    THEN [state |-> GeneratorSuccess(s, v), raised |-> FALSE, e |-> <<>>]
    ELSE [state |-> s, raised |-> FALSE, e |-> <<>>]

\* The body of sql_generator_node: with the query v the parser gave, or
\* the exception text v of the failed call, re-raised as
\* ExecutionException.
sql_generator_node(s, ok, v) ==
    IF ok
    THEN [state |-> GeneratorSuccess(s, v), raised |-> FALSE, e |-> <<>>]
    ELSE [state |-> s, raised |-> TRUE,
          e |-> <<"SQL generation failed: ">> \o v]

\* Rows shown by DatabaseService.execute_query.
MaxRowsShown == 100

Min(a, b) == IF a < b THEN a ELSE b

CellText(cell) == IF cell = None THEN <<"NULL">> ELSE cell

RowText(row) == Join([i \in 1..Len(row) |-> CellText(row[i])], <<" | ">>)

RECURSIVE RowsText(_, _, _)
RowsText(rows, i, max_rows) ==
    IF i > max_rows THEN <<>>
    ELSE RowText(rows[i]) \o <<"\n">> \o RowsText(rows, i + 1, max_rows)

\* The text DatabaseService.execute_query returns for what APIClient gave
\* it.  It never raises: every exception becomes a text.
execute_query(o) ==
    IF o.kind = "exception"
    THEN <<"query execution ">> \o ErrorMarker \o <<" occurred: ">> \o o.e
    ELSE IF o.code = "2400"
         THEN IF o.data.kind = "table"
              THEN LET columns == o.data.columns
                       data_rows == o.data.rows
                       header == Join(columns, <<" | ">>)
                       max_rows == Min(MaxRowsShown, Len(data_rows))
                   IN  <<"query result (", ToString(Len(data_rows)), " rows, ",
                         ToString(Len(columns)), " columns):\n\n">>
                       \o header \o <<"\n">>
                       \o [i \in 1..Len(header) |-> "-"] \o <<"\n">>
                       \o RowsText(data_rows, 1, max_rows)
                       \o (IF Len(data_rows) > max_rows
                           THEN <<"\n... (", ToString(Len(data_rows) - max_rows),
                                  " more rows)">>
                           ELSE <<>>)
              ELSE <<"query executed successfully.">>
         ELSE LET error_detail ==
                      IF o.data.kind = "str"
                      THEN <<" detail: ">> \o o.data.text ELSE <<>>
              IN  <<"query failed: ">> \o o.message
                  \o <<" (code: ", o.code, ")">> \o error_detail

\* The await with a DatabaseService that lets the exception of APIClient
\* through.
PortResult_Propagates(port, o) ==
    IF port = "DatabaseService"
    THEN [raised |-> o.kind = "exception",
          value |-> IF o.kind = "exception" THEN o.e ELSE execute_query(o)]
    ELSE [raised |-> o.kind = "raise", value |-> o.text]

\* What the await of database_service.execute_query in sql_executor_node
\* yields: a returned text or a raised exception.
PortResult(port, o) ==
    IF port = "DatabaseService"
    THEN [raised |-> FALSE, value |-> execute_query(o)]
    ELSE [raised |-> o.kind = "raise", value |-> o.text]

\* Whether the data-access call itself succeeded.
PortOk(port, o) ==
    IF port = "DatabaseService" THEN ApiOk(o) ELSE o.kind = "return"

PortOutcomes(port) ==
    IF port = "DatabaseService"
    THEN ApiOutcomes
    ELSE { [kind |-> x.kind, code |-> "", message |-> <<>>, data |-> NoData,
            e |-> <<>>, text |-> x.text] : x \in RaisingPortOutcomes }

\* The try branch leaving the counters as they were.
ExecutorSuccess_KeepsCounters(s, result) ==
    [s EXCEPT !.execution_result = result]

\* The try branch of sql_executor_node.
ExecutorSuccess(s, result) ==
    [s EXCEPT !.execution_result = result,
              !.validation_error_count = 0,
              !.execution_error_count = 0]

\* The except branch leaving execution_error_count as it was.
ExecutorFailure_NotCounted(s, e) ==
    [s EXCEPT !.execution_result = <<"execution ">> \o ErrorMarker \o <<": ">> \o e,
              !.validation_error_count = 0]

\* The except branch with the two counters swapped.
ExecutorFailure_SwappedCounters(s, e) ==
    [s EXCEPT !.execution_result = <<"execution ">> \o ErrorMarker \o <<": ">> \o e,
              !.execution_error_count = 0,
              !.validation_error_count = s.validation_error_count + 1]

\* The except branch of sql_executor_node.
ExecutorFailure(s, e) ==
    [s EXCEPT !.execution_result = <<"execution ">> \o ErrorMarker \o <<": ">> \o e,
              !.validation_error_count = 0,
              !.execution_error_count = s.execution_error_count + 1]

sql_executor_node(s, r) ==
    IF r.raised THEN ExecutorFailure(s, r.value) ELSE ExecutorSuccess(s, r.value)

\* The context block of response_synthesizer_node.
NoContext ==
    [kind |-> "", error_type |-> "", details |-> <<>>,
     sql_query |-> <<>>, sql_result |-> <<>>]

\* _build_failure_context testing the execution counter first.
_build_failure_context_ExecutionFirst(s) ==
    IF s.execution_error_count >= MAX_ERROR_COUNT
    THEN [NoContext EXCEPT !.kind = "failure", !.error_type = "SQL execution",
                           !.details = Get(s.execution_result, None)]
    ELSE [NoContext EXCEPT !.kind = "failure", !.error_type = "SQL validation",
                           !.details = Get(s.validation_error, None)]

_build_failure_context(s) ==
    IF s.validation_error_count >= MAX_ERROR_COUNT
    THEN [NoContext EXCEPT !.kind = "failure", !.error_type = "SQL validation",
                           !.details = Get(s.validation_error, None)]
    ELSE [NoContext EXCEPT !.kind = "failure", !.error_type = "SQL execution",
                           !.details = Get(s.execution_result, None)]

\* The context block response_synthesizer_node builds (lines 519-533); the
\* success block reads the key execution_result with state[...], which is
\* a KeyError when the dict does not hold it.
SynthesizerContext(s) ==
    LET is_failure == \/ s.validation_error_count >= MAX_ERROR_COUNT
                      \/ s.execution_error_count >= MAX_ERROR_COUNT
    IN  IF is_failure THEN _build_failure_context(s)
        ELSE IF s.execution_result = Absent
             THEN [NoContext EXCEPT !.kind = "KeyError"]
             ELSE [NoContext EXCEPT !.kind = "success", !.sql_query = s.sql_query,
                                    !.sql_result = s.execution_result]

\* The three fixed texts a run can end with.
UnsupportedMessage == <<"Sorry, I cannot answer this question. ...">>

SynthesizerErrorText(e) ==
    <<"Sorry. An ">> \o ErrorMarker \o <<" occurred while generating the answer: ">> \o e

RunErrorText(e) ==
    <<"Sorry. An ">> \o ErrorMarker \o <<" occurred while processing: ">> \o e

\* The selection with the partial match tried before the exact one.
SelectProfile_PartialFirst(dbs, answer) ==
    LET name == Strip(answer)
        exact == {i \in DOMAIN dbs : dbs[i].display_name = name}
        partial == {i \in DOMAIN dbs :
                        \/ IsSubstring(name, dbs[i].display_name)
                        \/ IsSubstring(dbs[i].display_name, name)}
        first(S) == CHOOSE i \in S : \A j \in S : i <= j
    IN  IF partial # {} THEN dbs[first(partial)]
        ELSE IF exact # {} THEN dbs[first(exact)]
        ELSE dbs[1]

\* The entry of the profile list db_classifier_node selects.
SelectProfile(dbs, answer) ==
    LET name == Strip(answer)
        exact == {i \in DOMAIN dbs : dbs[i].display_name = name}
        partial == {i \in DOMAIN dbs :
                        \/ IsSubstring(name, dbs[i].display_name)
                        \/ IsSubstring(dbs[i].display_name, name)}
        first(S) == CHOOSE i \in S : \A j \in S : i <= j
    IN  IF exact # {} THEN dbs[first(exact)]
        ELSE IF partial # {} THEN dbs[first(partial)]
        ELSE dbs[1]

\* db_schema: the converted annotations, or the fallback description.
SchemaOf(db) ==
    IF db.annotated THEN <<"annotation schema of ", db.id>>
    ELSE <<"DBMS type/host/port of ", db.id, "; no detailed schema">>

\* The classifier failing closed: a port failure gives the intent OTHER.
intent_classifier_node_FailClosed(s, ok, label) ==
    [s EXCEPT !.intent = IF ok THEN Strip(label) ELSE <<"O","T","H","E","R">>]

\* The body of intent_classifier_node: the label is stripped; a failure of
\* the language port sets the intent to SQL.
intent_classifier_node(s, ok, label) ==
    [s EXCEPT !.intent = IF ok THEN Strip(label) ELSE SQL]

\* db_classifier_node going on without a source when the list is empty.
db_classifier_node_NoEmptyCheck(s, dbs, answer) ==
    IF dbs = <<>>
    THEN [state |-> s, raised |-> FALSE, e |-> <<>>]
    ELSE LET db == SelectProfile(dbs, answer)
         IN  [state |-> [s EXCEPT !.selected_db = db.display_name,
                                  !.selected_db_profile = db.id,
                                  !.db_schema = SchemaOf(db)],
              raised |-> FALSE, e |-> <<>>]

\* The body of db_classifier_node once the profile list and the answer of
\* the language port are there: the state it leaves, or the exception it
\* re-raises when the list is empty.
db_classifier_node(s, dbs, answer) ==
    IF dbs = <<>>
    THEN [state |-> s, raised |-> TRUE, e |-> <<"no DBMS available.">>]
    ELSE LET db == SelectProfile(dbs, answer)
         IN  [state |-> [s EXCEPT !.selected_db = db.display_name,
                                  !.selected_db_profile = db.id,
                                  !.db_schema = SchemaOf(db)],
              raised |-> FALSE, e |-> <<>>]

\* Handlers that catch every exception, CancelledError included.
ExceptExceptionCatches_Everything(class) == TRUE

\* Whether the handlers of the stages and of SqlAgentGraph.run, all written
\* "except Exception", catch an exception of the given class.
\* asyncio.CancelledError derives from BaseException.
ExceptExceptionCatches(class) == class # "CancelledError"

----------------------------------------------------------------------------
(* One run of SqlAgentGraph.run, started by ChatbotService.handle_request. *)

VARIABLES
    state,             \* the SqlAgentState dict the current stage works on
    pc,                \* the stage the graph runs next, or "END"
    returned,          \* what SqlAgentGraph.run returns
    database_service,  \* the data port the graph was constructed with
    cancelled,         \* the caller has cancelled the run
    lastStage,         \* history: the stage that ran last
    lastRoute,         \* history: the label the last conditional edge returned
    error_feedback,    \* history: the feedback block of the last generation
    context_message,   \* history: the context block the synthesizer built
    callOk,            \* history: whether the last data-access call succeeded
    failedExecs,       \* history: failed data-access calls so far (saturating)
    calls,             \* history: executions of each stage (saturating)
    ports,             \* history: finished calls of each port (saturating)
    intent_label,      \* the label intent_classifier_node got (None on failure),
                       \* a local of the stage: gone when the next stage runs
    selection,         \* the profile list and the answer db_classifier_node
                       \* got, locals of the stage: gone when the next one runs
    runs,              \* the runs of concurrent handle_request calls
    _database_service,    \* the fields of the DatabaseService singleton
    _connection_monitor,  \* the fields of the ConnectionMonitor singleton
    calling,           \* the calls of get_db_profiles: where each one is and
                       \* what it saw and gave back
    audit,             \* history: the last calls on the two singletons, and
                       \* the local consecutive_failures of the monitoring task
    phase              \* where the application's lifespan is

\* The variables of the singletons of the services.
serviceVars == <<_database_service, _connection_monitor, calling, audit, phase>>

\* The variables of the runs of the graph.
runVars ==
    <<state, pc, returned, database_service, cancelled, lastStage, lastRoute,
      error_feedback, context_message, callOk, failedExecs, calls, ports,
      intent_label, selection, runs>>

vars == <<runVars, serviceVars>>

\* The DatabaseService as __init__ leaves it.
NewDatabaseService ==
    [_cached_db_profiles |-> None,
     _connection_attempted |-> FALSE,
     _connection_failed |-> FALSE]

\* The ConnectionMonitor as __init__ leaves it; _last_connection_status is
\* "None", "True" or "False".
NewConnectionMonitor ==
    [_last_connection_status |-> "None",
     _initial_connection_failed |-> FALSE,
     _connection_recovered |-> FALSE,
     _monitoring_enabled |-> FALSE]

\* No call of get_db_profiles has been made.
NotCalling ==
    [pc |-> "idle", called |-> FALSE, cache_seen |-> None, contacted |-> FALSE,
     raised |-> FALSE, result |-> None, overtaken |-> FALSE]

\* Nothing has been called on the singletons.
NoAudit ==
    [db_op |-> "", filled |-> FALSE,
     op |-> "", marked |-> FALSE, checks |-> 0, reported |-> 0,
     ret |-> FALSE, first |-> FALSE, was_monitoring |-> FALSE,
     ever_reported |-> FALSE, consecutive_failures |-> 0]

\* The singletons when the modules are imported.
ServicesImported ==
    /\ _database_service = NewDatabaseService
    /\ _connection_monitor = NewConnectionMonitor
    /\ calling = [i \in {1, 2} |-> NotCalling]
    /\ audit = NoAudit
    /\ phase = "startup"

NoSelection == [fetched |-> FALSE, dbs |-> <<>>, answer |-> <<>>]

\* The calls of handle_request that overlap on the one ChatbotService.
RunIds == {1, 2}

NotReturned == [done |-> FALSE, error |-> FALSE, state |-> InitialState]

\* A call that has not built its initial_state yet.
NotStarted ==
    [started |-> FALSE, ref |-> 0, pc |-> "intent_classifier",
     returned |-> NotReturned, stages |-> <<>>, log |-> <<>>]

\* No call has started: dicts holds the state dict at each address, of the
\* calls, and overlap tells whether a call took a step while another one
\* was between two of its stages.
NoRuns ==
    [dicts |-> [a \in RunIds |-> InitialState],
     of |-> [i \in RunIds |-> NotStarted],
     overlap |-> FALSE]

Init ==
    /\ state = InitialState
    /\ pc = "intent_classifier"
    /\ returned = [done |-> FALSE, error |-> FALSE, state |-> InitialState]
    /\ database_service \in DataPorts
    /\ cancelled = FALSE
    /\ lastStage = "START"
    /\ lastRoute = ""
    /\ error_feedback = NoFeedback
    /\ context_message = NoContext
    /\ callOk = TRUE
    /\ failedExecs = 0
    /\ calls = [st \in Stages |-> 0]
    /\ ports = [llm |-> 0, db |-> 0]
    /\ intent_label = None
    /\ selection = NoSelection
    /\ runs = NoRuns
    /\ ServicesImported

Inc(n) == Min(n + 1, CallCap)

\* The stage runs: it is the last stage and is counted, with the port calls
\* it made.
Ran(stage, llm, db) ==
    /\ lastStage' = stage
    /\ calls' = [calls EXCEPT ![stage] = Inc(@)]
    /\ ports' = [llm |-> IF llm THEN Inc(ports.llm) ELSE ports.llm,
                 db |-> IF db THEN Inc(ports.db) ELSE ports.db]

\* graph.ainvoke reached END: run returns the final state.
Finish(s) ==
    /\ pc' = "END"
    /\ returned' = [done |-> TRUE, error |-> FALSE, state |-> s]

\* A stage raised: the except branch of SqlAgentGraph.run returns the
\* initial state with an error text as final_response.
Abort(e) ==
    /\ pc' = "END"
    /\ returned' = [done |-> TRUE, error |-> TRUE,
                    state |-> [InitialState EXCEPT !.final_response = RunErrorText(e)]]

IntentClassifier ==
    /\ pc = "intent_classifier"
    /\ \E ok \in BOOLEAN, label \in IntentLabels :
          /\ state' = intent_classifier_node(state, ok, label)
          /\ intent_label' = IF ok THEN label ELSE None
    /\ lastRoute' = route_after_intent_classification(state')
    /\ pc' = lastRoute'
    /\ Ran("intent_classifier", TRUE, FALSE)
    /\ UNCHANGED <<returned, database_service, serviceVars, runs, cancelled, error_feedback,
                   context_message, callOk, failedExecs, selection>>

UnsupportedQuestion ==
    /\ pc = "unsupported_question"
    /\ state' = [state EXCEPT !.final_response = UnsupportedMessage]
    /\ Finish(state')
    /\ Ran("unsupported_question", FALSE, FALSE)
    /\ lastRoute' = ""
    /\ intent_label' = None
    /\ UNCHANGED <<database_service, serviceVars, runs, cancelled, error_feedback, context_message,
                   callOk, failedExecs, selection>>

DbClassifier ==
    /\ pc = "db_classifier"
    /\ \/ \E dbs \in ProfileLists, answer \in DbAnswers :
             LET r == db_classifier_node(state, dbs, answer)
             IN  /\ state' = r.state
                 /\ IF r.raised
                    THEN /\ Abort(r.e)
                         /\ selection' = [fetched |-> TRUE, dbs |-> dbs, answer |-> <<>>]
                         /\ Ran("db_classifier", FALSE, TRUE)
                    ELSE /\ pc' = "sql_generator"
                         /\ selection' = [fetched |-> TRUE, dbs |-> dbs, answer |-> answer]
                         /\ Ran("db_classifier", TRUE, TRUE)
                         /\ UNCHANGED returned
       \/ \* the profile query failed, or the language port did
          /\ \E e \in ExceptionTexts : Abort(e)
          /\ \E llm \in BOOLEAN : Ran("db_classifier", llm, TRUE)
          /\ UNCHANGED <<state, selection>>
    /\ lastRoute' = ""
    /\ intent_label' = None
    /\ UNCHANGED <<database_service, serviceVars, runs, cancelled, error_feedback, context_message,
                   callOk, failedExecs>>

SqlGenerator ==
    /\ pc = "sql_generator"
    /\ error_feedback' = _build_error_feedback(state)
    /\ \E ok \in BOOLEAN :
          \E v \in IF ok THEN QuerySamples ELSE ExceptionTexts :
             LET r == sql_generator_node(state, ok, v)
             IN  /\ state' = r.state
                 /\ IF r.raised
                    THEN Abort(r.e)
                    ELSE /\ pc' = "sql_validator"
                         /\ UNCHANGED returned
    /\ Ran("sql_generator", TRUE, FALSE)
    /\ lastRoute' = ""
    /\ selection' = NoSelection
    /\ UNCHANGED <<database_service, serviceVars, runs, cancelled, context_message, callOk,
                   failedExecs, intent_label>>

SqlValidator ==
    /\ pc = "sql_validator"
    /\ LET r == sql_validator_node(state)
       IN  /\ state' = r.state
           /\ IF r.raised
              THEN /\ Abort(r.e)
                   /\ lastRoute' = ""
              ELSE /\ lastRoute' = should_execute_sql(r.state)
                   /\ pc' = ValidatorTarget(lastRoute')
                   /\ UNCHANGED returned
    /\ Ran("sql_validator", FALSE, FALSE)
    /\ UNCHANGED <<database_service, serviceVars, runs, cancelled, error_feedback, context_message,
                   callOk, failedExecs, intent_label, selection>>

SqlExecutor ==
    /\ pc = "sql_executor"
    /\ \E o \in PortOutcomes(database_service) :
          /\ state' = sql_executor_node(state, PortResult(database_service, o))
          /\ callOk' = PortOk(database_service, o)
          /\ failedExecs' = IF PortOk(database_service, o) THEN failedExecs
                            ELSE Min(failedExecs + 1, CallCap)
    /\ lastRoute' = should_retry_or_respond(state')
    /\ pc' = ExecutorTarget(lastRoute')
    /\ Ran("sql_executor", FALSE, TRUE)
    /\ UNCHANGED <<returned, database_service, serviceVars, runs, cancelled, error_feedback,
                   context_message, intent_label, selection>>

ResponseSynthesizer ==
    /\ pc = "response_synthesizer"
    /\ context_message' = SynthesizerContext(state)
    /\ \/ \E text \in SynthesizedTexts :
             state' = [state EXCEPT !.final_response = text]
       \/ \E e \in ExceptionTexts :
             state' = [state EXCEPT !.final_response = SynthesizerErrorText(e)]
    /\ Finish(state')
    /\ Ran("response_synthesizer", TRUE, FALSE)
    /\ lastRoute' = ""
    /\ UNCHANGED <<database_service, serviceVars, runs, cancelled, error_feedback, callOk,
                   failedExecs, intent_label, selection>>

\* The stages that suspend the run on a call of a port.
IOStages ==
    {"intent_classifier", "db_classifier", "sql_generator", "sql_executor",
     "response_synthesizer"}

\* The caller cancels the run while the stage at pc is suspended on its
\* port call: CancelledError is raised at the await.  No stage writes the
\* state before its last await.  No handler of the stage nor the one of
\* SqlAgentGraph.run catches it, so it leaves handle_request; a handler
\* that caught it would let the stage go on as after a failed call.
Cancel ==
    /\ pc \in IOStages
    /\ ~cancelled
    /\ cancelled' = TRUE
    /\ IF ExceptExceptionCatches("CancelledError")
       THEN UNCHANGED <<pc, lastStage, calls>>
       ELSE /\ pc' = "END"
            /\ lastStage' = pc
            /\ calls' = [calls EXCEPT ![pc] = Inc(@)]
    /\ UNCHANGED <<state, returned, database_service, serviceVars, runs, lastRoute, error_feedback,
                   context_message, callOk, failedExecs, ports, intent_label,
                   selection>>

Next ==
    \/ IntentClassifier
    \/ UnsupportedQuestion
    \/ DbClassifier
    \/ SqlGenerator
    \/ SqlValidator
    \/ SqlExecutor
    \/ ResponseSynthesizer
    \/ Cancel

Spec == Init /\ [][Next]_vars

\* The event loop always resumes a run that has a stage to execute.
FairSpec == Spec /\ WF_vars(Next)

\* What handle_request gives its caller: the final_response of the state
\* run returned (a fixed text if the key is missing), or the exception that
\* left run.
DefaultAnswer == <<"Sorry. No response could be generated.">>

handle_request ==
    [raised |-> cancelled /\ pc = "END" /\ ~returned.done,
     answer |-> IF ~returned.done THEN None
                ELSE IF returned.state.final_response = None THEN DefaultAnswer
                ELSE returned.state.final_response]

----------------------------------------------------------------------------
(* Calls of handle_request that overlap on the singleton ChatbotService:  *)
(* its SqlAgentGraph, its SqlAgentNodes and its ports are the same for    *)
(* all of them, and the event loop switches between them at every await.  *)

\* Stages a call may execute before the model stops following it.
MaxSteps == 6

\* The dict a call of handle_request works on, with the state dict kept
\* on the shared service instance.
initial_state_OnInstance(i) == 1

\* The dict a call of handle_request works on: initial_state is a local of
\* the call, a new dict for each call.
initial_state(i) == i

\* What the ports answer a stage of an overlapping call: ok tells whether
\* the calls succeeded, v is the answer or the exception text.
StageOutcomes(stage, port) ==
    CASE stage = "intent_classifier" ->
            { [ok |-> TRUE, v |-> SQL], [ok |-> TRUE, v |-> <<"O","T","H","E","R">>],
              [ok |-> FALSE, v |-> None] }
      [] stage = "db_classifier" ->
            { [ok |-> TRUE, v |-> [dbs |-> dbs, answer |-> <<"h","r">>]] :
                 dbs \in {l \in ProfileLists : Len(l) # 1} }
      [] stage = "sql_generator" ->
            { [ok |-> TRUE, v |-> <<"S","E","L","E","C","T"," ","1">>],
              [ok |-> TRUE, v |-> <<"D","R","O","P"," ","t">>],
              [ok |-> FALSE, v |-> <<"ReadTimeout">>] }
      [] stage = "sql_executor" ->
            { [ok |-> PortOk(port, o), v |-> PortResult(port, o)] :
                 o \in {x \in PortOutcomes(port) :
                          x.data = NoData /\ x.e \in {<<>>, <<"ReadTimeout">>}
                          /\ x.code # "4000"} }
      [] stage = "response_synthesizer" ->
            { [ok |-> TRUE, v |-> <<"answer">>], [ok |-> FALSE, v |-> <<"ReadTimeout">>] }
      [] OTHER -> { [ok |-> TRUE, v |-> None] }

\* One stage of the compiled graph on the dict s, with the outcome o of its
\* port calls: the dict it leaves, the stage the edge after it leads to, and
\* what SqlAgentGraph.run returns when the run ends with it.
StageStep(s, stage, o) ==
    LET go(s2, next) == [state |-> s2, pc |-> next, returned |-> NotReturned]
        end(s2) == [state |-> s2, pc |-> "END",
                    returned |-> [done |-> TRUE, error |-> FALSE, state |-> s2]]
        abort(s2, e) ==
            [state |-> s2, pc |-> "END",
             returned |-> [done |-> TRUE, error |-> TRUE,
                           state |-> [InitialState EXCEPT
                                         !.final_response = RunErrorText(e)]]]
    IN  CASE stage = "intent_classifier" ->
                LET s2 == intent_classifier_node(s, o.ok, o.v)
                IN  go(s2, route_after_intent_classification(s2))
          [] stage = "unsupported_question" ->
                end([s EXCEPT !.final_response = UnsupportedMessage])
          [] stage = "db_classifier" ->
                LET r == db_classifier_node(s, o.v.dbs, o.v.answer)
                IN  IF r.raised THEN abort(r.state, r.e)
                    ELSE go(r.state, "sql_generator")
          [] stage = "sql_generator" ->
                LET r == sql_generator_node(s, o.ok, o.v)
                IN  IF r.raised THEN abort(r.state, r.e)
                    ELSE go(r.state, "sql_validator")
          [] stage = "sql_validator" ->
                LET r == sql_validator_node(s)
                IN  IF r.raised THEN abort(r.state, r.e)
                    ELSE go(r.state, ValidatorTarget(should_execute_sql(r.state)))
          [] stage = "sql_executor" ->
                LET s2 == sql_executor_node(s, o.v)
                IN  go(s2, ExecutorTarget(should_retry_or_respond(s2)))
          [] stage = "response_synthesizer" ->
                end([s EXCEPT !.final_response =
                        IF o.ok THEN o.v ELSE SynthesizerErrorText(o.v)])

\* What a call sees of its run: its dict, its next stage, what run
\* returned, and the stages it executed.
RunView(i) ==
    [state |-> runs.dicts[runs.of[i].ref], pc |-> runs.of[i].pc,
     returned |-> runs.of[i].returned, stages |-> runs.of[i].stages]

\* A call of handle_request builds its initial_state (chatbot_service.py
\* 55-60) and hands it to SqlAgentGraph.run.
HandleRequest(i) ==
    /\ ~runs.of[i].started
    /\ runs' = [runs EXCEPT
                  !.dicts[initial_state(i)] = InitialState,
                  !.of[i] = [NotStarted EXCEPT !.started = TRUE,
                                               !.ref = initial_state(i)]]

\* The event loop resumes call i: its run executes its next stage.
RunStage(i) ==
    /\ runs.of[i].started
    /\ runs.of[i].pc # "END"
    /\ Len(runs.of[i].log) < MaxSteps
    /\ \E o \in StageOutcomes(runs.of[i].pc, database_service) :
          LET r == StageStep(runs.dicts[runs.of[i].ref], runs.of[i].pc, o)
          IN  runs' = [runs EXCEPT
                         !.dicts[runs.of[i].ref] = r.state,
                         !.of[i].pc = r.pc,
                         !.of[i].returned = r.returned,
                         !.of[i].stages = Append(@, runs.of[i].pc),
                         !.of[i].log = Append(@, o),
                         !.overlap = @ \/ \E j \in RunIds \ {i} :
                                            /\ runs.of[j].log # <<>>
                                            /\ runs.of[j].pc # "END"]

ConcurrentNext ==
    /\ \E i \in RunIds : HandleRequest(i) \/ RunStage(i)
    /\ UNCHANGED <<state, pc, returned, database_service, serviceVars, cancelled, lastStage,
                   lastRoute, error_feedback, context_message, callOk,
                   failedExecs, calls, ports, intent_label, selection>>

ConcurrentSpec == Init /\ [][ConcurrentNext]_vars

\* The run of a call that is alone on the service and gets the port
\* outcomes of log, in that order.
RECURSIVE Alone(_)
Alone(log) ==
    IF log = <<>>
    THEN [state |-> InitialState, pc |-> "intent_classifier",
          returned |-> NotReturned, stages |-> <<>>]
    ELSE LET before == Alone(SubSeq(log, 1, Len(log) - 1))
             r == StageStep(before.state, before.pc, log[Len(log)])
         IN  [state |-> r.state, pc |-> r.pc, returned |-> r.returned,
              stages |-> Append(before.stages, before.pc)]

----------------------------------------------------------------------------
(* The two routing functions of SqlAgentEdges and the context block of    *)
(* the synthesizer on their own, applied to the states a caller may hand  *)
(* them.                                                                  *)

\* Largest counter value the routing functions are applied to.
MaxCount == 4

\* States the functions are applied to: each counter below, at and
\* above the ceiling, validation_error absent, null or a message, and
\* execution_result absent, null, empty, a result or a text with the marker.
RoutedStates ==
    { [InitialState EXCEPT !.validation_error = ve,
                           !.validation_error_count = vc,
                           !.execution_result = er,
                           !.execution_error_count = ec] :
        ve \in {Absent, None, ValidationMessage(<< dangerous_keywords[1] >>)},
        vc \in 0..MaxCount,
        er \in {Absent, None, <<>>, <<"3 rows">>,
                <<"execution ">> \o ErrorMarker \o <<": ReadTimeout">>},
        ec \in 0..MaxCount }

EdgeInit ==
    /\ state \in RoutedStates
    /\ pc \in {"should_execute_sql", "should_retry_or_respond", "context_message"}
    /\ returned = NotReturned
    /\ database_service = "DatabaseService"
    /\ cancelled = FALSE
    /\ lastStage = "START"
    /\ lastRoute = ""
    /\ error_feedback = NoFeedback
    /\ context_message = NoContext
    /\ callOk = TRUE
    /\ failedExecs = 0
    /\ calls = [st \in Stages |-> 0]
    /\ ports = [llm |-> 0, db |-> 0]
    /\ intent_label = None
    /\ selection = NoSelection
    /\ runs = NoRuns
    /\ ServicesImported

ShouldExecuteSql ==
    /\ pc = "should_execute_sql"
    /\ lastRoute' = should_execute_sql(state)
    /\ lastStage' = pc
    /\ pc' = "END"
    /\ UNCHANGED <<state, returned, database_service, serviceVars, cancelled, error_feedback,
                   context_message, callOk, failedExecs, calls, ports,
                   intent_label, selection, runs>>

ShouldRetryOrRespond ==
    /\ pc = "should_retry_or_respond"
    /\ lastRoute' = should_retry_or_respond(state)
    /\ lastStage' = pc
    /\ pc' = "END"
    /\ UNCHANGED <<state, returned, database_service, serviceVars, cancelled, error_feedback,
                   context_message, callOk, failedExecs, calls, ports,
                   intent_label, selection, runs>>

\* response_synthesizer_node up to its context block (lines 519-533).
BuildContext ==
    /\ pc = "context_message"
    /\ context_message' = SynthesizerContext(state)
    /\ lastStage' = pc
    /\ pc' = "END"
    /\ UNCHANGED <<state, returned, database_service, serviceVars, cancelled, lastRoute,
                   error_feedback, callOk, failedExecs, calls, ports,
                   intent_label, selection, runs>>

EdgeNext == ShouldExecuteSql \/ ShouldRetryOrRespond \/ BuildContext

EdgeSpec == EdgeInit /\ [][EdgeNext]_vars

-----------------------------------------------------------------------------
(* The singletons of the services: the profile cache of DatabaseService    *)
(* and the ConnectionMonitor the APIClient reports to, over the lifespan   *)
(* of the application.                                                      *)

\* Lists of profiles the backend answers get_db_profiles with.
DbProfileAnswers == { <<>>, <<"p1", "p2">>, <<"p3">> }

\* get_db_profiles from its entry to the await of the backend call, when
\* the cache is empty: a failure flag left by an earlier call is cleared
\* and the attempt is recorded.
get_db_profiles(d) ==
    IF d._cached_db_profiles = None
    THEN [d EXCEPT !._connection_failed = FALSE, !._connection_attempted = TRUE]
    ELSE d

\* get_db_profiles after the backend call has answered.
get_db_profiles_Fetched(d, profiles) ==
    [d EXCEPT !._cached_db_profiles = profiles, !._connection_failed = FALSE]

\* get_db_profiles in its except branch, before it raises RuntimeError.
get_db_profiles_Raised(d) ==
    [d EXCEPT !._connection_failed = TRUE]

refresh_cache(d) ==
    [d EXCEPT !._cached_db_profiles = None,
              !._connection_attempted = FALSE,
              !._connection_failed = FALSE]

clear_cache(d) ==
    [d EXCEPT !._cached_db_profiles = None,
              !._connection_attempted = FALSE,
              !._connection_failed = FALSE]

mark_initial_failure(m) ==
    [m EXCEPT !._initial_connection_failed = TRUE,
              !._last_connection_status = "False"]

mark_initial_success(m) ==
    [m EXCEPT !._initial_connection_failed = FALSE,
              !._last_connection_status = "True"]

start_monitoring(m) ==
    [m EXCEPT !._monitoring_enabled = TRUE]

stop_monitoring(m) ==
    [m EXCEPT !._monitoring_enabled = FALSE]

\* check_api_call_recovery that does not record the recovery it reports.
check_api_call_recovery_NotRecorded(m) ==
    IF /\ m._initial_connection_failed \/ m._last_connection_status = "False"
       /\ ~m._connection_recovered
    THEN [monitor |-> stop_monitoring([m EXCEPT !._last_connection_status = "True"]),
          ret |-> TRUE]
    ELSE [monitor |-> [m EXCEPT !._last_connection_status = "True"],
          ret |-> FALSE]

\* check_api_call_recovery: the monitor it leaves and the value it returns.
check_api_call_recovery(m) ==
    IF /\ m._initial_connection_failed \/ m._last_connection_status = "False"
       /\ ~m._connection_recovered
    THEN [monitor |-> stop_monitoring([m EXCEPT !._connection_recovered = TRUE,
                                                !._last_connection_status = "True"]),
          ret |-> TRUE]
    ELSE [monitor |-> [m EXCEPT !._last_connection_status = "True"],
          ret |-> FALSE]

mark_api_call_failure(m) ==
    [m EXCEPT !._last_connection_status = "False",
              !._connection_recovered = FALSE]

\* One iteration of _monitoring_loop after its health_check has returned
\* current_status: the monitor it leaves and its local consecutive_failures.
_monitoring_loop(m, current_status, consecutive_failures) ==
    IF m._last_connection_status = "False" /\ current_status
    THEN [monitor |-> [m EXCEPT !._connection_recovered = TRUE,
                                !._monitoring_enabled = FALSE],
          consecutive_failures |-> 0]
    ELSE IF m._last_connection_status = "True" /\ ~current_status
         THEN [monitor |-> [m EXCEPT !._connection_recovered = FALSE,
                                     !._last_connection_status = "False"],
               consecutive_failures |-> Inc(1)]
         ELSE [monitor |-> [m EXCEPT !._last_connection_status =
                                         IF current_status THEN "True" ELSE "False"],
               consecutive_failures |-> IF current_status THEN 0
                                        ELSE Inc(consecutive_failures)]

\* The history after a call of check_api_call_recovery that returned ret.
Checked(a, ret) ==
    [a EXCEPT !.op = "check_api_call_recovery",
              !.ret = ret,
              !.first = a.marked /\ a.checks = 0,
              !.checks = Inc(@),
              !.reported = IF ret THEN Inc(@) ELSE @,
              !.ever_reported = @ \/ ret]

\* The history after a call of mark_api_call_failure.
Marked(a) ==
    [a EXCEPT !.op = "mark_api_call_failure",
              !.marked = TRUE, !.checks = 0, !.reported = 0]

\* A backend call of the APIClient ends: a success is reported to the
\* monitor with check_api_call_recovery, a failure with
\* mark_api_call_failure.
ApiCallEnds(ok, a) ==
    IF ok
    THEN LET r == check_api_call_recovery(_connection_monitor)
         IN  /\ _connection_monitor' = r.monitor
             /\ audit' = Checked(a, r.ret)
    ELSE /\ _connection_monitor' = mark_api_call_failure(_connection_monitor)
         /\ audit' = Marked(a)

\* lifespan before the yield: the health check of the backend and, when
\* the environment asks for it and the check failed, the monitoring task.
Startup ==
    /\ phase = "startup"
    /\ \E healthy \in BOOLEAN, enable \in BOOLEAN :
          LET r == check_api_call_recovery(_connection_monitor)
              m == IF healthy
                   THEN mark_initial_success(r.monitor)
                   ELSE mark_initial_failure(mark_api_call_failure(_connection_monitor))
              a == IF healthy THEN Checked(audit, r.ret) ELSE Marked(audit)
              start == enable /\ m._initial_connection_failed
          IN  /\ _connection_monitor' = IF start THEN start_monitoring(m) ELSE m
              /\ audit' = [a EXCEPT !.was_monitoring = start,
                                    !.consecutive_failures = 0]
    /\ phase' = "serving"
    /\ UNCHANGED <<_database_service, calling, runVars>>

\* A call of get_db_profiles starts: it returns the cached list or goes to
\* the backend.
GetDbProfiles(i) ==
    /\ phase = "serving"
    /\ calling[i].pc = "idle"
    /\ LET hit == _database_service._cached_db_profiles # None
       IN  calling' = [calling EXCEPT ![i] =
                          [pc |-> IF hit THEN "idle" ELSE "awaiting",
                           called |-> TRUE,
                           cache_seen |-> _database_service._cached_db_profiles,
                           contacted |-> ~hit,
                           raised |-> FALSE,
                           result |-> IF hit THEN _database_service._cached_db_profiles
                                      ELSE None,
                           overtaken |-> FALSE]]
    /\ _database_service' = get_db_profiles(_database_service)
    /\ audit' = [audit EXCEPT !.db_op = "get_db_profiles"]
    /\ UNCHANGED <<_connection_monitor, phase, runVars>>

\* The backend answers a call: the list is cached and returned.
Fetched(i) ==
    /\ calling[i].pc = "awaiting"
    /\ \E profiles \in DbProfileAnswers :
          /\ _database_service' = get_db_profiles_Fetched(_database_service, profiles)
          /\ calling' = [j \in DOMAIN calling |->
                            IF j = i
                            THEN [calling[j] EXCEPT !.pc = "idle", !.result = profiles]
                            ELSE IF calling[j].pc = "awaiting"
                                 THEN [calling[j] EXCEPT !.overtaken = TRUE]
                                 ELSE calling[j]]
    /\ ApiCallEnds(TRUE, [audit EXCEPT !.db_op = "fetched", !.filled = TRUE])
    /\ UNCHANGED <<phase, runVars>>

\* The backend call of a call fails: get_db_profiles raises RuntimeError.
FetchFailed(i) ==
    /\ calling[i].pc = "awaiting"
    /\ _database_service' = get_db_profiles_Raised(_database_service)
    /\ calling' = [calling EXCEPT ![i].pc = "idle", ![i].raised = TRUE]
    /\ ApiCallEnds(FALSE, [audit EXCEPT !.db_op = "raised"])
    /\ UNCHANGED <<phase, runVars>>

RefreshCache ==
    /\ phase = "serving"
    /\ _database_service' = refresh_cache(_database_service)
    /\ audit' = [audit EXCEPT !.db_op = "refresh_cache", !.filled = FALSE]
    /\ UNCHANGED <<_connection_monitor, calling, phase, runVars>>

ClearCache ==
    /\ phase = "serving"
    /\ _database_service' = clear_cache(_database_service)
    /\ audit' = [audit EXCEPT !.db_op = "clear_cache", !.filled = FALSE]
    /\ UNCHANGED <<_connection_monitor, calling, phase, runVars>>

\* APIClient.health_check called for the health endpoint.
HealthCheck ==
    /\ phase = "serving"
    /\ \E is_healthy \in BOOLEAN : ApiCallEnds(is_healthy, audit)
    /\ UNCHANGED <<_database_service, calling, phase, runVars>>

\* One iteration of the monitoring task: its health check and the rest of
\* the loop body.
MonitoringLoop ==
    /\ phase = "serving"
    /\ _connection_monitor._monitoring_enabled
    /\ \E current_status \in BOOLEAN :
          LET r == check_api_call_recovery(_connection_monitor)
              m == IF current_status THEN r.monitor
                   ELSE mark_api_call_failure(_connection_monitor)
              l == _monitoring_loop(m, current_status, audit.consecutive_failures)
              a == IF current_status THEN Checked(audit, r.ret) ELSE Marked(audit)
          IN  /\ _connection_monitor' = l.monitor
              /\ audit' = [a EXCEPT !.consecutive_failures = l.consecutive_failures]
    /\ UNCHANGED <<_database_service, calling, phase, runVars>>

\* lifespan after the yield: the monitoring is stopped.
Shutdown ==
    /\ phase = "serving"
    /\ \A i \in DOMAIN calling : calling[i].pc = "idle"
    /\ _connection_monitor' = stop_monitoring(_connection_monitor)
    /\ phase' = "shutdown"
    /\ UNCHANGED <<_database_service, calling, audit, runVars>>

ServiceInit ==
    /\ Init
    /\ database_service = "DatabaseService"

ServiceNext ==
    \/ Startup
    \/ \E i \in DOMAIN calling : GetDbProfiles(i)
    \/ \E i \in DOMAIN calling : Fetched(i)
    \/ \E i \in DOMAIN calling : FetchFailed(i)
    \/ RefreshCache
    \/ ClearCache
    \/ HealthCheck
    \/ MonitoringLoop
    \/ Shutdown

ServiceSpec == ServiceInit /\ [][ServiceNext]_vars

----------------------------------------------------------------------------
(* Properties of the run.                                                  *)

C2_CeilingRoutesToSynthesizer ==
    (lastStage = "sql_validator" /\ state.validation_error_count >= MAX_ERROR_COUNT)
        => pc = "response_synthesizer"

\* C3: an executor step whose data-access call failed records a result,
\* resets validation_error_count and raises execution_error_count by one.
C3_FailedCallCounts ==
    [][(pc = "sql_executor" /\ ~callOk')
          => /\ Truthy(state'.execution_result)
             /\ state'.validation_error_count = 0
             /\ state'.execution_error_count = state.execution_error_count + 1]_vars

\* C4: at most three execution attempts fail in a run, and the third failed
\* attempt is followed by response_synthesizer on the failure path.
C4_AtMostThreeFailedExecutions ==
    /\ failedExecs <= MAX_ERROR_COUNT
    /\ (lastStage = "sql_executor" /\ failedExecs >= MAX_ERROR_COUNT)
          => (pc = "response_synthesizer" /\ lastRoute = "synthesize_failure")

\* C5: the state a finished run returns has a final_response that is neither
\* None nor empty.
C5_FinalResponseNonEmpty ==
    returned.done => Truthy(returned.state.final_response)

C7_ExecuteOnlyValidated ==
    pc = "sql_executor"
        => /\ lastStage = "sql_validator"
           /\ lastRoute = "execute"
           /\ found_keywords(state.sql_query) = <<>>
           /\ state.validation_error = None

C7_Witness ==
    /\ pc = "sql_executor"
    /\ error_feedback.kind = "validation"

\* C8: after an execution attempt the run goes back to sql_generator exactly
\* when the attempt failed and execution_error_count is below the ceiling; a
\* successful attempt takes the success path and a failed one never does.
C8_RetryIffFailedBelowCeiling ==
    lastStage = "sql_executor"
        => /\ (pc = "sql_generator")
                <=> (~callOk /\ state.execution_error_count < MAX_ERROR_COUNT)
           /\ callOk => lastRoute = "synthesize_success"
           /\ ~callOk => lastRoute # "synthesize_success"

\* C9: the feedback block sql_generator_node builds is empty on the first
\* generation, carries the rejection reason after a validation rejection, and
\* carries the failed query and the execution error after a failed execution.
C9_FeedbackMatchesLastFailure ==
    [][(pc = "sql_generator")
          => /\ lastStage = "db_classifier" => error_feedback' = NoFeedback
             /\ lastStage = "sql_validator"
                   => /\ error_feedback'.kind = "validation"
                      /\ error_feedback'.reason = state.validation_error
             /\ (lastStage = "sql_executor" /\ ~callOk)
                   => /\ error_feedback'.kind = "execution"
                      /\ error_feedback'.failed_sql = state.sql_query
                      /\ error_feedback'.error = state.execution_result]_vars

\* C10: a run that ends with validation_error_count at the ceiling got its
\* final response from response_synthesizer_node, built from the failure
\* context of category validation with the validator's message, and not from
\* the error text of SqlAgentGraph.run.
C10_ValidationCeilingIsSynthesized ==
    (pc = "END" /\ state.validation_error_count >= MAX_ERROR_COUNT)
        => /\ lastStage = "response_synthesizer"
           /\ context_message.kind = "failure"
           /\ context_message.error_type = "SQL validation"
           /\ context_message.details = state.validation_error
           /\ ~returned.error

\* C11: a fatal error (no source at all, or a failed generation) reaches the
\* caller as an exception or an error result and not as a returned state
\* with a final_response; a rejected query never leaves the run that way.
FatalNoSources == selection.fetched /\ selection.dbs = <<>>

FatalGeneration == pc = "END" /\ lastStage = "sql_generator" /\ returned.error

C11_FatalErrorsAreDistinct ==
    /\ (FatalNoSources \/ FatalGeneration)
          => (handle_request.raised \/ returned.state.final_response = None)
    /\ (pc = "END" /\ lastStage = "sql_validator") => ~returned.error

\* C12: when the data port lists no source, db_classifier_node raises, the
\* run ends there and generator, validator and executor never run.
C12_NoSourcesEndsRun ==
    FatalNoSources
        => /\ pc = "END"
           /\ lastStage = "db_classifier"
           /\ returned.error
           /\ calls["sql_generator"] = 0
           /\ calls["sql_validator"] = 0
           /\ calls["sql_executor"] = 0

C12_Witness == FatalNoSources /\ pc = "END" /\ calls["db_classifier"] = 1

\* The label is "SQL" between leading and trailing whitespace.
IsPaddedSQL(label) ==
    \E i \in 1..Len(label), j \in 1..Len(label) :
        /\ SubSeq(label, i, j) = SQL
        /\ \A k \in DOMAIN label : (k < i \/ k > j) => label[k] \in Whitespace

\* The state intent_classifier_node leaves after the port gave a label.
Classified ==
    lastStage = "intent_classifier" /\ intent_label # None /\ ~cancelled

\* C13: a label goes to the source selector exactly when it is
\* the SQL marker up to case and surrounding whitespace.
C13_CaseInsensitiveLabel ==
    Classified
        => /\ pc \in {"db_classifier", "unsupported_question"}
           /\ pc = "db_classifier" <=> IsPaddedSQL([i \in DOMAIN intent_label |->
                    IF intent_label[i] \in Whitespace THEN intent_label[i]
                    ELSE CHOOSE u \in {UpperChars[n] : n \in DOMAIN UpperChars} :
                            LowerChar(u) = LowerChar(intent_label[i])])

\* C14: when the language port fails in the classifier, the intent is SQL,
\* nothing is raised and the run goes on to db_classifier.
C14_ClassifierFailsOpen ==
    (lastStage = "intent_classifier" /\ intent_label = None /\ ~cancelled)
        => /\ state.intent = SQL
           /\ pc = "db_classifier"
           /\ ~returned.done

C14_Witness ==
    /\ lastStage = "intent_classifier"
    /\ intent_label = None
    /\ ~cancelled
    /\ pc = "db_classifier"

\* C15: with an intent other than SQL the run goes from the classifier to
\* unsupported_question and ends there with the fixed message; the data port
\* is never called and the language port only by the classifier.
C15_UnsupportedIsDirect ==
    (state.intent # None /\ state.intent # SQL)
        => /\ pc \in {"unsupported_question", "END"}
           /\ ports = [llm |-> 1, db |-> 0]
           /\ \A st \in Stages \ {"intent_classifier", "unsupported_question"} :
                 calls[st] = 0
           /\ pc = "END"
                 => /\ lastStage = "unsupported_question"
                    /\ returned = [done |-> TRUE, error |-> FALSE, state |-> state]
                    /\ state.final_response = UnsupportedMessage

C15_Witness ==
    /\ pc = "END"
    /\ lastStage = "unsupported_question"
    /\ state.intent = <<"O","T","H","E","R">>

\* C16: the selected source is the first profile whose display name equals
\* the answer; without one, the first whose name contains the answer or is
\* contained in it; without one, the first profile.  The run goes on.
C16_SelectionPriority ==
    (lastStage = "db_classifier" /\ selection.fetched /\ selection.dbs # <<>>)
        => LET dbs == selection.dbs
               name == Strip(selection.answer)
               Exact(i) == dbs[i].display_name = name
               Partial(i) == \/ IsSubstring(name, dbs[i].display_name)
                             \/ IsSubstring(dbs[i].display_name, name)
           IN  /\ pc = "sql_generator"
               /\ ~returned.done
               /\ \E i \in DOMAIN dbs :
                     /\ state.selected_db_profile = dbs[i].id
                     /\ state.selected_db = dbs[i].display_name
                     /\ \/ Exact(i) /\ \A j \in 1..(i - 1) : ~Exact(j)
                        \/ /\ \A k \in DOMAIN dbs : ~Exact(k)
                           /\ Partial(i)
                           /\ \A j \in 1..(i - 1) : ~Partial(j)
                        \/ /\ \A k \in DOMAIN dbs : ~Exact(k) /\ ~Partial(k)
                           /\ i = 1

C16_Witness ==
    /\ lastStage = "db_classifier"
    /\ Len(selection.dbs) = 2
    /\ selection.dbs[1].display_name = <<"h","r","_","d","b">>
    /\ selection.answer = <<"h","r">>
    /\ state.selected_db_profile = selection.dbs[2].id

\* A deny-listed keyword stands in the query, in any case, between
\* whitespace or the ends of the query.
HasDenyToken(q) ==
    \E n \in DOMAIN dangerous_keywords, i \in DOMAIN q :
        LET k == dangerous_keywords[n]
            j == i + Len(k) - 1
        IN  /\ j <= Len(q)
            /\ \A m \in 1..Len(k) : LowerChar(q[i + m - 1]) = k[m]
            /\ i = 1 \/ q[i - 1] \in Whitespace
            /\ j = Len(q) \/ q[j + 1] \in Whitespace

\* C17: sql_validator_node rejects the query exactly when a deny-listed
\* keyword is one of its whitespace-delimited tokens, case-insensitively; it
\* calls no port and leaves the query as it is.
C17_ValidatorVerdict ==
    [][pc = "sql_validator"
          => /\ (state'.validation_error # None) <=> HasDenyToken(state.sql_query)
             /\ state'.sql_query = state.sql_query
             /\ ports' = ports]_vars

C17_Witness ==
    /\ lastStage = "sql_validator"
    /\ state.sql_query = <<"a","\t","D","e","l","e","t","e","\n","b">>
    /\ state.validation_error # None

C19_RunsAreIsolated ==
    \A i \in RunIds :
        runs.of[i].started => RunView(i) = Alone(runs.of[i].log)

C19_Witness ==
    /\ runs.overlap
    /\ \A i \in RunIds : runs.of[i].pc = "END"
    /\ runs.of[1].stages = <<"intent_classifier", "unsupported_question">>
    /\ runs.of[2].returned.state.final_response = <<"answer">>
    /\ runs.dicts[2].validation_error_count = 0
    /\ Len(runs.of[2].stages) = 6

\* Each of the stages on the way to the synthesizer has run once, and no
\* other stage has run, the synthesizer n times.
OnceEachThenSynthesizer(n) ==
    calls = [st \in Stages |->
                IF st = "unsupported_question" THEN 0
                ELSE IF st = "response_synthesizer" THEN n ELSE 1]

\* The run is past the successful execution of its first generated query.
FirstQueryExecuted ==
    /\ ~cancelled
    /\ callOk
    /\ calls["sql_generator"] = 1
    /\ calls["sql_executor"] = 1

\* C21: when the first generated query passes the validator and its
\* execution succeeds, the six stages of the main path have run once each
\* (the edges leave one order for that), the executor is followed by the
\* synthesizer on the success route, and the synthesizer gets the success
\* context with the query and the execution result.
C21_HappyPathStages ==
    /\ (lastStage = "sql_executor" /\ FirstQueryExecuted)
          => /\ pc = "response_synthesizer"
             /\ lastRoute = "synthesize_success"
             /\ OnceEachThenSynthesizer(0)
    /\ (lastStage = "response_synthesizer" /\ FirstQueryExecuted)
          => /\ pc = "END"
             /\ OnceEachThenSynthesizer(1)
             /\ context_message =
                   [NoContext EXCEPT !.kind = "success",
                                     !.sql_query = state.sql_query,
                                     !.sql_result = state.execution_result]

\* C22: sql_generator_node calls the language port once; when the call or
\* the parser fails the state is left as it was and the run ends with the
\* generation-failure text, and once the run has ended no stage runs.
C22_GenerationFailureEndsRun ==
    [][/\ (pc = "sql_generator" /\ ~cancelled')
             => /\ ports'.llm = Inc(ports.llm)
                /\ calls'["sql_generator"] = Inc(calls["sql_generator"])
                /\ \/ /\ pc' = "sql_validator"
                      /\ ~returned'.done
                      /\ state'.sql_query # None
                      /\ state'.validation_error = None
                      /\ state'.execution_result = None
                   \/ /\ pc' = "END"
                      /\ returned'.done /\ returned'.error
                      /\ IsSubstring(<<"SQL generation failed: ">>,
                                     returned'.state.final_response)
                      /\ state' = state
       /\ pc = "END" => (calls' = calls /\ ports' = ports)]_vars

C22_Witness ==
    /\ lastStage = "sql_generator"
    /\ pc = "END"
    /\ returned.error
    /\ calls["sql_generator"] = 2
    /\ calls["sql_validator"] = 1

\* C23: sql_executor_node always returns a state (the run goes on to the
\* edge after it) with the outcome of the call in execution_result, and in
\* the counters: both 0 after a call that returned, execution_error_count
\* one higher and validation_error_count 0 after a call that raised.
C23_ExecutorNeverRaises ==
    [][(pc = "sql_executor" /\ ~cancelled')
          => /\ pc' \in {"sql_generator", "response_synthesizer"}
             /\ ~returned'.done
             /\ state'.execution_result # None
             /\ state'.validation_error_count = 0
             /\ IF database_service = "RaisingPort" /\ ~callOk'
                THEN /\ state'.execution_error_count =
                            state.execution_error_count + 1
                     /\ IsSubstring(ErrorMarker, state'.execution_result)
                ELSE state'.execution_error_count = 0]_vars

C23_Witness ==
    /\ lastStage = "sql_executor"
    /\ ~callOk
    /\ ~cancelled
    /\ state.execution_error_count = 1
    /\ pc = "sql_generator"

\* C24: response_synthesizer_node calls the language port once, never
\* raises, and leaves a final_response that is neither None nor empty, which
\* the run returns.
C24_SynthesizerCompletes ==
    [][(pc = "response_synthesizer" /\ ~cancelled')
          => /\ ports'.llm = Inc(ports.llm)
             /\ pc' = "END"
             /\ returned' = [done |-> TRUE, error |-> FALSE, state |-> state']
             /\ Truthy(state'.final_response)]_vars

\* validation_error holds a message.
ValidationErrorSet == state.validation_error \notin {Absent, None}

\* C25: should_execute_sql returns a label for every state: the failure
\* label when validation_error_count is at the ceiling or above it, whatever
\* validation_error is; below the ceiling the retry label when
\* validation_error is set and the execute label when it is not.
C25_ValidatorEdgePriority ==
    (pc = "END" /\ lastStage = "should_execute_sql")
        => /\ lastRoute \in {"synthesize_failure", "regenerate", "execute"}
           /\ lastRoute = "synthesize_failure"
                 <=> state.validation_error_count >= MAX_ERROR_COUNT
           /\ lastRoute = "regenerate"
                 <=> (state.validation_error_count < MAX_ERROR_COUNT
                      /\ ValidationErrorSet)

C25_Witness ==
    /\ pc = "END"
    /\ lastStage = "should_execute_sql"
    /\ state.validation_error_count >= MAX_ERROR_COUNT
    /\ ValidationErrorSet
    /\ lastRoute = "synthesize_failure"

\* execution_result is a text with the failure marker in it.
MarkedAsError ==
    /\ state.execution_result \notin {Absent, None}
    /\ IsSubstring(ErrorMarker, state.execution_result)

\* C26: should_retry_or_respond returns a label for every state, one with
\* execution_result absent or None included: the failure label when
\* execution_error_count is at the ceiling or above it, whatever
\* execution_result is; below the ceiling the retry label when
\* execution_result is marked as an error and the success label otherwise.
C26_ExecutorEdgePriority ==
    (pc = "END" /\ lastStage = "should_retry_or_respond")
        => /\ lastRoute \in {"synthesize_failure", "regenerate", "synthesize_success"}
           /\ lastRoute = "synthesize_failure"
                 <=> state.execution_error_count >= MAX_ERROR_COUNT
           /\ lastRoute = "regenerate"
                 <=> (state.execution_error_count < MAX_ERROR_COUNT
                      /\ MarkedAsError)

\* The keyword k stands in the query q, in any case, between whitespace or
\* the ends of the query.
KeywordToken(q, k) ==
    \E i \in DOMAIN q :
        LET j == i + Len(k) - 1
        IN  /\ j <= Len(q)
            /\ \A m \in 1..Len(k) : LowerChar(q[i + m - 1]) = k[m]
            /\ i = 1 \/ q[i - 1] \in Whitespace
            /\ j = Len(q) \/ q[j + 1] \in Whitespace

\* C27: on a rejected query sql_validator_node sets validation_error to a
\* message that names exactly the keywords standing in the query and raises
\* validation_error_count by 1; on an accepted one it sets validation_error
\* to None and the count to 0.  It leaves sql_query, execution_result and
\* execution_error_count as they were.
C27_ValidatorEffect ==
    [][pc = "sql_validator"
          => /\ IF \E n \in DOMAIN dangerous_keywords :
                      KeywordToken(state.sql_query, dangerous_keywords[n])
                THEN /\ state'.validation_error_count =
                            state.validation_error_count + 1
                     /\ \A n \in DOMAIN dangerous_keywords :
                           KeywordToken(state.sql_query, dangerous_keywords[n])
                              <=> IsSubstring(Quoted(dangerous_keywords[n]),
                                              state'.validation_error)
                ELSE /\ state'.validation_error = None
                     /\ state'.validation_error_count = 0
             /\ state'.sql_query = state.sql_query
             /\ state'.execution_result = state.execution_result
             /\ state'.execution_error_count = state.execution_error_count]_vars

C27_Witness ==
    /\ lastStage = "sql_validator"
    /\ state.sql_query = <<"u","p","d","a","t","e"," "," ","i","n","s","e","r","t">>
    /\ state.validation_error_count = 2
    /\ IsSubstring(Quoted(<<"i","n","s","e","r","t">>), state.validation_error)

\* The texts a successful data-access call gives the executor.
SuccessDescriptions ==
    { PortResult(database_service, o).value :
        o \in {x \in PortOutcomes(database_service) : PortOk(database_service, x)} }

\* C28: after a successful data-access call sql_executor_node leaves the
\* success description in execution_result and both counters at 0.
C28_SuccessResetsBothCounters ==
    [][(pc = "sql_executor" /\ ~cancelled' /\ callOk')
          => /\ state'.execution_result \in SuccessDescriptions
             /\ state'.validation_error_count = 0
             /\ state'.execution_error_count = 0]_vars

C28_Witness ==
    /\ lastStage = "sql_executor"
    /\ ~cancelled
    /\ callOk
    /\ failedExecs > 0
    /\ database_service = "RaisingPort"
    /\ state.execution_error_count = 0

C30_GeneratorEffect ==
    [][(pc = "sql_generator" /\ pc' = "sql_validator")
          => /\ state'.sql_query \in QuerySamples
             /\ state'.validation_error = None
             /\ state'.execution_result = None
             /\ state'.validation_error_count = state.validation_error_count
             /\ state'.execution_error_count = state.execution_error_count
             /\ state'.intent = state.intent
             /\ state'.selected_db = state.selected_db
             /\ state'.selected_db_profile = state.selected_db_profile
             /\ state'.db_schema = state.db_schema]_vars

C30_Witness ==
    /\ lastStage = "sql_generator"
    /\ pc = "sql_validator"
    /\ state.validation_error_count = 2
    /\ state.validation_error = None
    /\ state.sql_query = <<"S","E","L","E","C","T"," ","1">>

\* C31: the context block is the success block, with the query and the
\* execution result, exactly when both counters are below the ceiling;
\* otherwise it is the failure block, for validation with validation_error
\* when validation_error_count is at the ceiling, and for execution with
\* execution_result when only execution_error_count is.
C31_ContextMatchesCounters ==
    (pc = "END" /\ lastStage = "context_message" /\ state.execution_result # Absent)
        => LET validation == state.validation_error_count >= MAX_ERROR_COUNT
               execution == state.execution_error_count >= MAX_ERROR_COUNT
           IN  /\ context_message.kind \in {"success", "failure"}
               /\ context_message.kind = "success" <=> (~validation /\ ~execution)
               /\ context_message.kind = "success"
                     => /\ context_message.sql_query = state.sql_query
                        /\ context_message.sql_result = state.execution_result
               /\ validation
                     => /\ context_message.error_type = "SQL validation"
                        /\ context_message.details
                              = IF state.validation_error = Absent THEN None
                                ELSE state.validation_error
               /\ (~validation /\ execution)
                     => /\ context_message.error_type = "SQL execution"
                        /\ context_message.details = state.execution_result

C31_Witness ==
    /\ pc = "END"
    /\ lastStage = "context_message"
    /\ state.validation_error_count >= MAX_ERROR_COUNT
    /\ state.execution_error_count >= MAX_ERROR_COUNT
    /\ state.validation_error \notin {Absent, None}
    /\ context_message.error_type = "SQL validation"

\* The edges _add_edges declares, and the end of the run after any stage
\* (its terminal edge, an exception or the cancellation).
DeclaredEdges ==
    { <<"intent_classifier", "db_classifier">>,
      <<"intent_classifier", "unsupported_question">>,
      <<"db_classifier", "sql_generator">>,
      <<"sql_generator", "sql_validator">>,
      <<"sql_validator", "sql_generator">>,
      <<"sql_validator", "sql_executor">>,
      <<"sql_validator", "response_synthesizer">>,
      <<"sql_executor", "sql_generator">>,
      <<"sql_executor", "response_synthesizer">> }
    \cup { <<st, "END">> : st \in Stages }

\* C32: intent_classifier and db_classifier run at most once, intent is
\* written by intent_classifier only and the selected source and schema by
\* db_classifier only, and every step follows a declared edge, so that a
\* retry enters at sql_generator.
C32_SelectionStagesRunOnce ==
    [][/\ calls'["intent_classifier"] <= 1
       /\ calls'["db_classifier"] <= 1
       /\ pc' # pc => <<pc, pc'>> \in DeclaredEdges
       /\ state'.intent # state.intent => pc = "intent_classifier"
       /\ (\/ state'.selected_db # state.selected_db
           \/ state'.selected_db_profile # state.selected_db_profile
           \/ state'.db_schema # state.db_schema) => pc = "db_classifier"]_vars

C32_Witness ==
    /\ calls["sql_generator"] = 3
    /\ calls["sql_executor"] = 2
    /\ calls["intent_classifier"] = 1
    /\ calls["db_classifier"] = 1
    /\ pc = "sql_validator"

\* C33: the final_response a run returns was written by a terminal stage,
\* response_synthesizer or unsupported_question, and once written it does
\* not change.
C33_FinalResponseByTerminalStage ==
    /\ state.final_response # None
          => lastStage \in {"response_synthesizer", "unsupported_question"}
    /\ returned.state.final_response # None
          => /\ lastStage \in {"response_synthesizer", "unsupported_question"}
             /\ returned.state.final_response = state.final_response

\* C34: with DatabaseService as the data port execution_error_count is 0
\* in every state of the run, after a failed backend call too.
C34_DatabaseServiceNeverCounts ==
    database_service = "DatabaseService"
        => /\ state.execution_error_count = 0
           /\ returned.state.execution_error_count = 0
           /\ lastStage = "sql_executor" /\ ~cancelled
                 => state.execution_result # None

C34_Witness ==
    /\ database_service = "DatabaseService"
    /\ lastStage = "sql_executor"
    /\ ~cancelled
    /\ ~callOk
    /\ failedExecs >= MAX_ERROR_COUNT
    /\ state.execution_error_count = 0

\* C35: with a data port that raises on every failed call, sql_executor
\* runs at most MAX_ERROR_COUNT times in a run.
C35_RaisingPortBoundsExecutions ==
    database_service = "RaisingPort"
        => calls["sql_executor"] <= MAX_ERROR_COUNT

\* C36: both counters stay between 0 and the ceiling, in the state the
\* stages work on and in the state the run returns.
C36_CountersWithinCeiling ==
    /\ state.validation_error_count \in 0..MAX_ERROR_COUNT
    /\ state.execution_error_count \in 0..MAX_ERROR_COUNT
    /\ returned.state.validation_error_count \in 0..MAX_ERROR_COUNT
    /\ returned.state.execution_error_count \in 0..MAX_ERROR_COUNT

C36_Witness ==
    /\ state.execution_error_count = MAX_ERROR_COUNT
    /\ pc = "response_synthesizer"
    /\ lastRoute = "synthesize_failure"

\* ---- The legacy validation step (sql_agent_graph.py) ----

\* The body of the legacy sql_validator_node: it returns the state and
\* never raises.
legacy_sql_validator_node(s) ==
    LET found == found_keywords(s.sql_query)
    IN  IF found # <<>>
        THEN [s EXCEPT !.validation_error = ValidationMessage(found),
                       !.validation_error_count = s.validation_error_count + 1]
        ELSE [s EXCEPT !.validation_error = None,
                       !.validation_error_count = 0]

legacy_should_execute_sql(s) ==
    IF s.validation_error_count >= MAX_ERROR_COUNT THEN "synthesize_failure"
    ELSE IF Truthy(Get(s.validation_error, None)) THEN "regenerate"
    ELSE "execute"

\* The routing table of the legacy graph for sql_validator.
legacy_ValidatorTarget(label) ==
    CASE label = "regenerate" -> "sql_generator"
      [] label = "execute" -> "sql_executor"
      [] label = "synthesize_failure" -> "response_synthesizer"

\* C37: the refactored validation step and the legacy one are equivalent:
\* every step of sql_validator_node followed by should_execute_sql leaves
\* the validation_error and the validation_error_count that the legacy
\* sql_validator_node leaves on the same state, and goes to the stage the
\* legacy should_execute_sql selects.
C37_ValidationStepsEquivalent ==
    [][pc = "sql_validator" /\ ~cancelled' =>
          LET l == legacy_sql_validator_node(state)
          IN  /\ state'.validation_error = l.validation_error
              /\ state'.validation_error_count = l.validation_error_count
              /\ pc' = legacy_ValidatorTarget(legacy_should_execute_sql(l))]_vars

\* C38: get_db_profiles contacts the backend if and only if the profile
\* cache is empty when it is called; once a fetch has succeeded, and until
\* refresh_cache or clear_cache, the cache is filled and a call returns the
\* cached list without a backend call; and a failed fetch leaves the cache
\* empty, so that the next call retries.
C38_CacheGovernsBackendCalls ==
    /\ \A i \in DOMAIN calling :
          calling[i].called =>
             /\ calling[i].contacted <=> calling[i].cache_seen = None
             /\ ~calling[i].contacted => calling[i].result = calling[i].cache_seen
    /\ audit.filled => _database_service._cached_db_profiles # None
    /\ audit.db_op = "raised" => _database_service._cached_db_profiles = None

\* C39: ConnectionMonitor reports a recovery once per outage: of the calls
\* of check_api_call_recovery since the last mark_api_call_failure at most
\* one has returned True, a call that returns True is the first one after
\* that failure, and once a call has returned True the background
\* monitoring is not enabled.
C39_RecoveryReportedOnce ==
    /\ audit.reported <= 1
    /\ audit.op = "check_api_call_recovery" /\ audit.ret => audit.first
    /\ audit.ever_reported => ~_connection_monitor._monitoring_enabled

\* A later successful call has returned False after the recovery of the
\* outage was reported, and the monitoring started at startup is stopped.
C39_Witness ==
    /\ audit.was_monitoring
    /\ audit.reported = 1
    /\ audit.checks >= 2
    /\ audit.op = "check_api_call_recovery"
    /\ ~audit.ret
    /\ ~_connection_monitor._monitoring_enabled
    /\ phase = "serving"


====
